---- MODULE Spec2Model ----
(***************************************************************************)
(* The preferences dialog of app/src/ui/preferences/preferences.tsx: the   *)
(* component state built by the constructor, the asynchronous load of      *)
(* componentWillMount, the synchronous edit handlers, the render functions *)
(* and the awaited write sequence of onSave, over a key/value store that   *)
(* stands for the global git config and the dispatcher's settings.         *)
(***************************************************************************)
EXTENDS Integers, Sequences, FiniteSets, TLC

VARIABLES props, state, persisted, load, saves, dismissals, nEdits, edited

vars == <<props, state, persisted, load, saves, dismissals, nEdits, edited>>

(***************************************************************************)
(* Bounds of the model.                                                    *)
(***************************************************************************)
MaxNameLen == 2    \* longest committer name typed or stored
MaxEdits == 1      \* edit-handler calls in one dialog session
MaxSaves == 1      \* submissions of the dialog in one session

(***************************************************************************)
(* Values.                                                                 *)
(***************************************************************************)
\* null / undefined of a string-valued expression
Null == "null"
\* null of an object-valued expression (Account, IMergeTool, IAPIEmail)
None == [absent |-> TRUE]

\* PreferencesTab, in the order of the tab bar's children
Accounts == 0
Integrations == 1
Git == 2
Appearance == 3
Advanced == 4
\* initialSelectedTab left out by the host
NoTab == -1
Tabs == {Accounts, Integrations, Git, Appearance, Advanced}

\* UncommittedChangesStrategyKind and its default
AskForConfirmation == "AskForConfirmation"
MoveToNewBranch == "MoveToNewBranch"
StrategyKinds == {AskForConfirmation, MoveToNewBranch}
uncommittedChangesStrategyKindDefault == AskForConfirmation

\* characters of a committer name: one git allows, one it disallows
Chars == {"a", "<"}
DisallowedChars == {"<"}
NameSeqs == UNION {[1..n -> Chars] : n \in 0..MaxNameLen}

\* the string spelt by a sequence of characters, and the characters of a string
RECURSIVE Spell(_)
Spell(cs) == IF cs = <<>> THEN "" ELSE Head(cs) \o Spell(Tail(cs))
CharsOf(name) == CHOOSE cs \in NameSeqs : Spell(cs) = name

Names == {Spell(cs) : cs \in NameSeqs}

Emails == {"", "u@x"}
Editors == <<"Atom", "Code">>
Shells == <<"Cmd", "PowerShell">>
ToolNames == {"", "m"}
ToolCommands == {"", "c"}

Range(s) == {s[i] : i \in 1..Len(s)}

(***************************************************************************)
(* identifier-rules.gitAuthorNameIsValid: a name made only of disallowed   *)
(* characters is invalid.                                                  *)
(***************************************************************************)
gitAuthorNameIsValid(name) ==
  LET cs == CharsOf(name)
  IN  ~(Len(cs) > 0 /\ \A i \in 1..Len(cs) : cs[i] \in DisallowedChars)

InvalidNameMessage == "Name is invalid, it consists only of disallowed characters."

(***************************************************************************)
(* lib/email.lookupPreferredEmail: the first verified address, else the    *)
(* first listed, else nothing.                                             *)
(***************************************************************************)
lookupPreferredEmail(account) ==
  LET emails == account.emails
      verified == {i \in 1..Len(emails) : emails[i].verified}
  IN  IF Len(emails) = 0 THEN None
      ELSE IF verified # {}
           THEN emails[CHOOSE i \in verified : \A j \in verified : i <= j]
           ELSE emails[1]

\* JavaScript truthiness of a string | null
Truthy(v) == v # Null /\ Len(v) > 0

(***************************************************************************)
(* The store behind setGlobalConfigValue / getGlobalConfigValue and the    *)
(* dispatcher's setters.                                                   *)
(***************************************************************************)
MergeToolCmdKey(name) == "mergetool." \o name \o ".cmd"

ConfigKeys == {"user.name", "user.email", "merge.tool"}
                \cup {MergeToolCmdKey(n) : n \in ToolNames \ {""}}
FlagKeys == {"statsOptOut", "confirmRepoRemoval", "confirmForcePush",
             "confirmDiscardChanges"}
ToolKeys == {"externalEditor", "shell"}
Keys == ConfigKeys \cup FlagKeys \cup ToolKeys \cup {"uncommittedChangesStrategyKind"}

getGlobalConfigValue(key) == persisted[key]

\* lib/git/config.getMergeTool: the configured tool and its command
getMergeTool ==
  LET name == getGlobalConfigValue("merge.tool")
  IN  IF Truthy(name)
      THEN [name |-> name, command |-> getGlobalConfigValue(MergeToolCmdKey(name))]
      ELSE None

(***************************************************************************)
(* constructor                                                             *)
(***************************************************************************)
\* the initial tab taken from the props as it is, absent or not
InitialTabNoDefault(p) == p.initialSelectedTab

InitialTab(p) ==
  IF p.initialSelectedTab # NoTab /\ p.initialSelectedTab # 0
  THEN p.initialSelectedTab
  ELSE Accounts

ConstructedState(p) ==
  [selectedIndex |-> InitialTab(p),
   committerName |-> "",
   committerEmail |-> "",
   disallowedCharactersMessage |-> Null,
   availableEditors |-> <<>>,
   optOutOfUsageTracking |-> FALSE,
   confirmRepositoryRemoval |-> FALSE,
   confirmDiscardChanges |-> FALSE,
   confirmForcePush |-> FALSE,
   uncommittedChangesStrategyKind |-> uncommittedChangesStrategyKindDefault,
   automaticallySwitchTheme |-> FALSE,
   selectedExternalEditor |-> p.selectedExternalEditor,
   availableShells |-> <<>>,
   selectedShell |-> p.selectedShell,
   mergeTool |-> None]

(***************************************************************************)
(* The hosts and environments the dialog is opened in.                     *)
(***************************************************************************)
DotComAccounts ==
  {None,
   [login |-> "a", emails |-> <<>>],
   [login |-> "a",
    emails |-> <<[email |-> "d1@x", verified |-> FALSE],
                 [email |-> "d2@x", verified |-> TRUE]>>]}

EnterpriseAccounts ==
  {None,
   [login |-> "aa", emails |-> <<[email |-> "e1@x", verified |-> FALSE]>>]}

\* the settings the host holds when it opens the dialog
HostSettings ==
  {[optOutOfUsageTracking |-> TRUE, confirmRepositoryRemoval |-> FALSE,
    confirmDiscardChanges |-> TRUE, confirmForcePush |-> FALSE,
    uncommittedChangesStrategyKind |-> MoveToNewBranch,
    selectedExternalEditor |-> Null, selectedShell |-> Shells[2]],
   [optOutOfUsageTracking |-> FALSE, confirmRepositoryRemoval |-> TRUE,
    confirmDiscardChanges |-> FALSE, confirmForcePush |-> TRUE,
    uncommittedChangesStrategyKind |-> MoveToNewBranch,
    selectedExternalEditor |-> Editors[1], selectedShell |-> Shells[1]]}

\* what the global git config holds then
GitConfigs ==
  {[name |-> Null, email |-> Null, tool |-> Null, cmd |-> Null],
   [name |-> "a", email |-> "c@x", tool |-> "m", cmd |-> Null],
   [name |-> "<", email |-> Null, tool |-> "m", cmd |-> "c"]}

PropsOf(dot, ent, tab, settings) ==
  [dotComAccount |-> dot,
   enterpriseAccount |-> ent,
   optOutOfUsageTracking |-> settings.optOutOfUsageTracking,
   confirmRepositoryRemoval |-> settings.confirmRepositoryRemoval,
   confirmDiscardChanges |-> settings.confirmDiscardChanges,
   confirmForcePush |-> settings.confirmForcePush,
   uncommittedChangesStrategyKind |-> settings.uncommittedChangesStrategyKind,
   selectedExternalEditor |-> settings.selectedExternalEditor,
   selectedShell |-> settings.selectedShell,
   initialSelectedTab |-> tab]

InitialStore(p, config) ==
  [k \in Keys |->
     CASE k = "user.name" -> config.name
       [] k = "user.email" -> config.email
       [] k = "merge.tool" -> config.tool
       [] k = "statsOptOut" -> p.optOutOfUsageTracking
       [] k = "confirmRepoRemoval" -> p.confirmRepositoryRemoval
       [] k = "confirmForcePush" -> p.confirmForcePush
       [] k = "confirmDiscardChanges" -> p.confirmDiscardChanges
       [] k = "uncommittedChangesStrategyKind" -> p.uncommittedChangesStrategyKind
       [] k = "externalEditor" -> p.selectedExternalEditor
       [] k = "shell" -> p.selectedShell
       [] OTHER -> config.cmd]

InitWith(p, store) ==
  /\ props = p
  /\ state = ConstructedState(p)
  /\ persisted = store
  /\ load = [pc |-> "getName", committerName |-> Null, committerEmail |-> Null]
  /\ saves = <<>>
  /\ dismissals = 0
  /\ nEdits = 0
  /\ edited = {}

Init ==
  \E settings \in HostSettings, config \in GitConfigs :
    LET p == PropsOf(None, CHOOSE a \in EnterpriseAccounts : a # None, NoTab,
                     settings)
    IN  InitWith(p, InitialStore(p, config))

(***************************************************************************)
(* componentWillMount                                                      *)
(***************************************************************************)
\* the fallback taken from the enterprise account first
LoadIdentityEnterpriseFirst(p, configName, configEmail) ==
  LET account == IF p.enterpriseAccount # None THEN p.enterpriseAccount
                 ELSE p.dotComAccount
      missing == ~Truthy(configName) \/ ~Truthy(configEmail)
      name == IF missing /\ account # None /\ ~Truthy(configName)
              THEN account.login ELSE configName
      found == IF account # None THEN lookupPreferredEmail(account) ELSE None
      email == IF missing /\ account # None /\ ~Truthy(configEmail) /\ found # None
               THEN found.email ELSE configEmail
  IN  [committerName |-> IF Truthy(name) THEN name ELSE "",
       committerEmail |-> IF Truthy(email) THEN email ELSE ""]

\* lines 97-115: the identity load commits, from what the config holds
LoadIdentity(p, configName, configEmail) ==
  LET account == IF p.dotComAccount # None THEN p.dotComAccount
                 ELSE p.enterpriseAccount
      missing == ~Truthy(configName) \/ ~Truthy(configEmail)
      name == IF missing /\ account # None /\ ~Truthy(configName)
              THEN account.login ELSE configName
      found == IF account # None THEN lookupPreferredEmail(account) ELSE None
      email == IF missing /\ account # None /\ ~Truthy(configEmail) /\ found # None
               THEN found.email ELSE configEmail
  IN  [committerName |-> IF Truthy(name) THEN name ELSE "",
       committerEmail |-> IF Truthy(email) THEN email ELSE ""]

\* what getAvailableEditors and getAvailableShells find on this machine
FoundEditors == [i \in 1..Len(Editors) |-> [editor |-> Editors[i], path |-> "/e"]]
FoundShells == [i \in 1..Len(Shells) |-> [shell |-> Shells[i], path |-> "/s"]]

Fetches == {"editors", "shells", "mergeTool"}

\* lines 123-137: the one setState of load
LoadedState(st, p, l, editors, shells, mergeTool) ==
  [st EXCEPT !.committerName = l.committerName,
             !.committerEmail = l.committerEmail,
             !.optOutOfUsageTracking = p.optOutOfUsageTracking,
             !.confirmRepositoryRemoval = p.confirmRepositoryRemoval,
             !.confirmDiscardChanges = p.confirmDiscardChanges,
             !.confirmForcePush = p.confirmForcePush,
             !.uncommittedChangesStrategyKind = p.uncommittedChangesStrategyKind,
             !.availableShells = [i \in 1..Len(shells) |-> shells[i].shell],
             !.availableEditors = [i \in 1..Len(editors) |-> editors[i].editor],
             !.mergeTool = mergeTool]

\* line 94: the read of user.name completes
LoadNameRead ==
  /\ load.pc = "getName"
  /\ load' = [load EXCEPT !.pc = "getEmail",
                          !.committerName = getGlobalConfigValue("user.name")]
  /\ UNCHANGED <<props, state, persisted, saves, dismissals, nEdits, edited>>

\* lines 95-121: the read of user.email completes, the identity is settled
\* and the three fetches are started
LoadEmailRead ==
  /\ load.pc = "getEmail"
  /\ LET id == LoadIdentity(props, load.committerName,
                            getGlobalConfigValue("user.email"))
     IN  load' = [load EXCEPT !.pc = "fetch",
                              !.committerName = id.committerName,
                              !.committerEmail = id.committerEmail]
  /\ UNCHANGED <<props, state, persisted, saves, dismissals, nEdits, edited>>

\* a config read rejects: componentWillMount ends there
LoadReadFails ==
  /\ load.pc \in {"getName", "getEmail"}
  /\ load' = [load EXCEPT !.pc = "failed"]
  /\ UNCHANGED <<props, state, persisted, saves, dismissals, nEdits, edited>>

\* lines 117-137: Promise.all resolves and the results are committed
LoadCommit ==
  /\ load.pc = "fetch"
  /\ state' = LoadedState(state, props, load, FoundEditors, FoundShells, getMergeTool)
  /\ load' = [load EXCEPT !.pc = "done"]
  /\ UNCHANGED <<props, persisted, saves, dismissals, nEdits, edited>>

\* a failed fetch that still commits the identity already read
LoadFetchFailsKeepsIdentity(f) ==
  /\ load.pc = "fetch"
  /\ load' = [load EXCEPT !.pc = "failed"]
  /\ state' = [state EXCEPT !.committerName = load.committerName,
                            !.committerEmail = load.committerEmail]
  /\ UNCHANGED <<props, persisted, saves, dismissals, nEdits, edited>>

\* lines 117-121: one of the three fetches rejects, and Promise.all with it
LoadFetchFails(f) ==
  /\ load.pc = "fetch"
  /\ load' = [load EXCEPT !.pc = "failed"]
  /\ UNCHANGED <<props, state, persisted, saves, dismissals, nEdits, edited>>

(***************************************************************************)
(* render                                                                  *)
(***************************************************************************)
\* the dialog is on screen until the host has been told to dismiss it
Open == dismissals = 0

renderDisallowedCharactersError(st) ==
  IF st.disallowedCharactersMessage # Null
  THEN [dialogError |-> st.disallowedCharactersMessage]
  ELSE None

\* the Appearance case falling through to the Advanced one
renderActiveTabFallsThrough(st) ==
  CASE st.selectedIndex = Accounts -> [view |-> "Accounts"]
    [] st.selectedIndex = Integrations -> [view |-> "Integrations"]
    [] st.selectedIndex = Git -> [view |-> "Git"]
    [] st.selectedIndex \in {Appearance, Advanced} -> [view |-> "Advanced"]
    [] OTHER -> [assertNever |-> st.selectedIndex]

renderActiveTab(st) ==
  CASE st.selectedIndex = Accounts -> [view |-> "Accounts"]
    [] st.selectedIndex = Integrations -> [view |-> "Integrations"]
    [] st.selectedIndex = Git -> [view |-> "Git"]
    [] st.selectedIndex = Appearance -> [view |-> "Appearance"]
    [] st.selectedIndex = Advanced -> [view |-> "Advanced"]
    [] OTHER -> [assertNever |-> st.selectedIndex]

\* a footer whose Save control ignores the validity message
renderFooterAlwaysEnabled(st) ==
  CASE st.selectedIndex \in {Accounts, Appearance} -> None
    [] st.selectedIndex \in {Integrations, Advanced, Git} ->
         [okButtonText |-> "Save", okButtonDisabled |-> FALSE]
    [] OTHER -> [assertNever |-> st.selectedIndex]

renderFooter(st) ==
  LET hasDisabledError == st.disallowedCharactersMessage # Null
  IN  CASE st.selectedIndex \in {Accounts, Appearance} -> None
        [] st.selectedIndex \in {Integrations, Advanced, Git} ->
             [okButtonText |-> "Save", okButtonDisabled |-> hasDisabledError]
        [] OTHER -> [assertNever |-> st.selectedIndex]

\* the Save control can be pressed
SaveEnabled(st) ==
  /\ renderFooter(st) # None
  /\ "okButtonDisabled" \in DOMAIN renderFooter(st)
  /\ ~renderFooter(st).okButtonDisabled

(***************************************************************************)
(* The edit handlers, each reachable from the tab that renders its field.  *)
(***************************************************************************)
Edit(tab, field, st) ==
  /\ Open
  /\ nEdits < MaxEdits
  /\ renderActiveTab(state) = [view |-> tab]
  /\ state' = st
  /\ nEdits' = nEdits + 1
  /\ edited' = edited \cup {field}
  /\ UNCHANGED <<props, persisted, load, saves, dismissals>>

\* a tab switch held back while the name is invalid
onTabClickedValidated(index) ==
  /\ Open
  /\ state.disallowedCharactersMessage = Null
  /\ state' = [state EXCEPT !.selectedIndex = index]
  /\ UNCHANGED <<props, persisted, load, saves, dismissals, nEdits, edited>>

onTabClicked(index) ==
  /\ Open
  /\ state' = [state EXCEPT !.selectedIndex = index]
  /\ UNCHANGED <<props, persisted, load, saves, dismissals, nEdits, edited>>

onOptOutofReportingChanged(value) ==
  Edit("Advanced", "optOutOfUsageTracking",
       [state EXCEPT !.optOutOfUsageTracking = value])

onConfirmRepositoryRemovalChanged(value) ==
  Edit("Advanced", "confirmRepositoryRemoval",
       [state EXCEPT !.confirmRepositoryRemoval = value])

onConfirmDiscardChangesChanged(value) ==
  Edit("Advanced", "confirmDiscardChanges",
       [state EXCEPT !.confirmDiscardChanges = value])

onConfirmForcePushChanged(value) ==
  Edit("Advanced", "confirmForcePush", [state EXCEPT !.confirmForcePush = value])

onUncommittedChangesStrategyKindChanged(value) ==
  Edit("Advanced", "uncommittedChangesStrategyKind",
       [state EXCEPT !.uncommittedChangesStrategyKind = value])

\* a name handler that stores the name and leaves the message alone
NameChangedKeepsMessage(st, committerName) ==
  [st EXCEPT !.committerName = committerName]

NameChanged(st, committerName) ==
  [st EXCEPT !.committerName = committerName,
             !.disallowedCharactersMessage =
                IF gitAuthorNameIsValid(committerName) THEN Null
                ELSE InvalidNameMessage]

onCommitterNameChanged(committerName) ==
  Edit("Git", "committerName", NameChanged(state, committerName))

onCommitterEmailChanged(committerEmail) ==
  Edit("Git", "committerEmail", [state EXCEPT !.committerEmail = committerEmail])

onSelectedEditorChanged(editor) ==
  Edit("Integrations", "selectedExternalEditor",
       [state EXCEPT !.selectedExternalEditor = editor])

onSelectedShellChanged(shell) ==
  Edit("Integrations", "selectedShell", [state EXCEPT !.selectedShell = shell])

\* a name edit that starts the merge tool afresh, its command dropped
MergeToolNameChangedDropsCommand(st, name) ==
  [st EXCEPT !.mergeTool = [name |-> name, command |-> Null]]

MergeToolNameChanged(st, name) ==
  [st EXCEPT !.mergeTool =
     [name |-> name,
      command |-> IF st.mergeTool # None THEN st.mergeTool.command ELSE Null]]

MergeToolCommandChanged(st, command) ==
  [st EXCEPT !.mergeTool =
     [name |-> IF st.mergeTool # None THEN st.mergeTool.name ELSE "",
      command |-> command]]

onMergeToolNameChanged(name) ==
  Edit("Integrations", "mergeTool", MergeToolNameChanged(state, name))

onMergeToolCommandChanged(command) ==
  Edit("Integrations", "mergeTool", MergeToolCommandChanged(state, command))

(***************************************************************************)
(* onSave: an async function that issues one write, awaits it, and goes on *)
(* from the state the component then holds.  A save is                     *)
(*   pc        the key of the write it awaits, or "done" or "failed"       *)
(*   mergeTool its local const mergeTool (line 374)                        *)
(*   log       the writes it has issued, in order                          *)
(*   completed how many of them have completed                             *)
(*   dismissed how often it has called props.onDismissed                   *)
(*   triggered the saved fields as the state held them when onSave was     *)
(*             called (history: no step of the save reads it)              *)
(***************************************************************************)
Issue(sv, key, value) ==
  [sv EXCEPT !.pc = key, !.log = Append(@, [key |-> key, value |-> value])]

\* line 386
CallDismissed(sv) == [sv EXCEPT !.pc = "done", !.dismissed = @ + 1]

\* the state fields onSave reads
SavedFields ==
  {"committerName", "committerEmail", "optOutOfUsageTracking",
   "confirmRepositoryRemoval", "confirmForcePush", "selectedExternalEditor",
   "selectedShell", "confirmDiscardChanges", "uncommittedChangesStrategyKind",
   "mergeTool"}

\* lines 345-346: the call of onSave runs up to its first await
StartSave(st) ==
  Issue([pc |-> "start", mergeTool |-> None, log |-> <<>>, completed |-> 0,
         dismissed |-> 0, triggered |-> [f \in SavedFields |-> st[f]]],
        "user.name", st.committerName)

\* the editor written whether or not one is selected
AfterConfirmForcePushAlwaysEditor(sv, st) ==
  Issue(sv, "externalEditor", st.selectedExternalEditor)

\* lines 360-365
AfterConfirmForcePush(sv, st) ==
  IF st.selectedExternalEditor # Null
  THEN Issue(sv, "externalEditor", st.selectedExternalEditor)
  ELSE Issue(sv, "shell", st.selectedShell)

\* lines 374-376 and 386
AfterStrategyKind(sv, st) ==
  LET mergeTool == st.mergeTool
  IN  IF mergeTool # None /\ Truthy(mergeTool.name)
      THEN Issue([sv EXCEPT !.mergeTool = mergeTool], "merge.tool", mergeTool.name)
      ELSE CallDismissed([sv EXCEPT !.mergeTool = mergeTool])

\* the command key written whatever the command holds
AfterMergeToolAlwaysCommand(sv) ==
  Issue(sv, MergeToolCmdKey(sv.mergeTool.name), sv.mergeTool.command)

\* the last write not awaited: onDismissed called as soon as it is issued
AfterMergeToolNotAwaited(sv) ==
  IF Truthy(sv.mergeTool.command)
  THEN [Issue(sv, MergeToolCmdKey(sv.mergeTool.name), sv.mergeTool.command)
          EXCEPT !.dismissed = @ + 1]
  ELSE CallDismissed(sv)

\* lines 378-386
AfterMergeTool(sv) ==
  IF Truthy(sv.mergeTool.command)
  THEN Issue(sv, MergeToolCmdKey(sv.mergeTool.name), sv.mergeTool.command)
  ELSE CallDismissed(sv)

\* the writes grouped as config, behaviour flags, tools: confirm discard
\* changes written with the other flags, before the editor and the shell
ContinueGrouped(sv, st) ==
  CASE sv.pc = "user.name" -> Issue(sv, "user.email", st.committerEmail)
    [] sv.pc = "user.email" -> Issue(sv, "statsOptOut", st.optOutOfUsageTracking)
    [] sv.pc = "statsOptOut" ->
         Issue(sv, "confirmRepoRemoval", st.confirmRepositoryRemoval)
    [] sv.pc = "confirmRepoRemoval" ->
         Issue(sv, "confirmForcePush", st.confirmForcePush)
    [] sv.pc = "confirmForcePush" ->
         Issue(sv, "confirmDiscardChanges", st.confirmDiscardChanges)
    [] sv.pc = "confirmDiscardChanges" -> AfterConfirmForcePush(sv, st)
    [] sv.pc = "externalEditor" -> Issue(sv, "shell", st.selectedShell)
    [] sv.pc = "shell" ->
         Issue(sv, "uncommittedChangesStrategyKind",
               st.uncommittedChangesStrategyKind)
    [] sv.pc = "uncommittedChangesStrategyKind" -> AfterStrategyKind(sv, st)
    [] sv.pc = "merge.tool" -> AfterMergeTool(sv)
    [] OTHER -> CallDismissed(sv)

\* the code between the await that has just completed and the next one
Continue(sv, st) ==
  CASE sv.pc = "user.name" -> Issue(sv, "user.email", st.committerEmail)
    [] sv.pc = "user.email" -> Issue(sv, "statsOptOut", st.optOutOfUsageTracking)
    [] sv.pc = "statsOptOut" ->
         Issue(sv, "confirmRepoRemoval", st.confirmRepositoryRemoval)
    [] sv.pc = "confirmRepoRemoval" ->
         Issue(sv, "confirmForcePush", st.confirmForcePush)
    [] sv.pc = "confirmForcePush" -> AfterConfirmForcePush(sv, st)
    [] sv.pc = "externalEditor" -> Issue(sv, "shell", st.selectedShell)
    [] sv.pc = "shell" ->
         Issue(sv, "confirmDiscardChanges", st.confirmDiscardChanges)
    [] sv.pc = "confirmDiscardChanges" ->
         Issue(sv, "uncommittedChangesStrategyKind",
               st.uncommittedChangesStrategyKind)
    [] sv.pc = "uncommittedChangesStrategyKind" -> AfterStrategyKind(sv, st)
    [] sv.pc = "merge.tool" -> AfterMergeTool(sv)
    [] OTHER -> CallDismissed(sv)

Running(sv) == sv.pc \notin {"done", "failed"}

\* line 146: the dialog is submitted with the Save control
onSave ==
  /\ Open
  /\ Len(saves) < MaxSaves
  /\ SaveEnabled(state)
  /\ saves' = Append(saves, StartSave(state))
  /\ UNCHANGED <<props, state, persisted, load, dismissals, nEdits, edited>>

\* the awaited write completes and onSave runs on to its next await or its end
SaveWriteCompletes(i) ==
  /\ Running(saves[i])
  /\ LET sv == saves[i]
         write == sv.log[Len(sv.log)]
         next == Continue([sv EXCEPT !.completed = @ + 1], state)
     IN  /\ persisted' = [persisted EXCEPT ![write.key] = write.value]
         /\ saves' = [saves EXCEPT ![i] = next]
         /\ dismissals' = dismissals + (next.dismissed - sv.dismissed)
  /\ UNCHANGED <<props, state, load, nEdits, edited>>

\* a rejected write that also takes back the first write of the save
SaveWriteFailsRollsBack(i) ==
  /\ Running(saves[i])
  /\ saves' = [saves EXCEPT ![i].pc = "failed"]
  /\ persisted' = [persisted EXCEPT !["user.name"] = Null]
  /\ UNCHANGED <<props, state, load, dismissals, nEdits, edited>>

\* the awaited write rejects: onSave ends there, its promise rejected
SaveWriteFails(i) ==
  /\ Running(saves[i])
  /\ saves' = [saves EXCEPT ![i].pc = "failed"]
  /\ UNCHANGED <<props, state, persisted, load, dismissals, nEdits, edited>>

Next ==
  \/ LoadNameRead
  \/ LoadEmailRead
  \/ LoadReadFails
  \/ LoadCommit
  \/ \E f \in Fetches : LoadFetchFails(f)
  \/ \E index \in Tabs : onTabClicked(index)
  \/ \E value \in BOOLEAN : onOptOutofReportingChanged(value)
  \/ \E value \in BOOLEAN : onConfirmRepositoryRemovalChanged(value)
  \/ \E value \in BOOLEAN : onConfirmDiscardChangesChanged(value)
  \/ \E value \in BOOLEAN : onConfirmForcePushChanged(value)
  \/ \E value \in StrategyKinds : onUncommittedChangesStrategyKindChanged(value)
  \/ \E name \in Names : onCommitterNameChanged(name)
  \/ \E email \in Emails : onCommitterEmailChanged(email)
  \/ \E editor \in Range(state.availableEditors) : onSelectedEditorChanged(editor)
  \/ \E shell \in Range(state.availableShells) : onSelectedShellChanged(shell)
  \/ \E name \in ToolNames : onMergeToolNameChanged(name)
  \/ \E command \in ToolCommands : onMergeToolCommandChanged(command)
  \/ onSave
  \/ \E i \in 1..Len(saves) : SaveWriteCompletes(i)
  \/ \E i \in 1..Len(saves) : SaveWriteFails(i)

Spec == Init /\ [][Next]_vars

(***************************************************************************)
(* Load alone, over every combination of stored identity and accounts.     *)
(***************************************************************************)
StoredNames == {Null, "", "a"}
StoredEmails == {Null, "", "c@x"}

InitLoad ==
  \E dot \in DotComAccounts, ent \in EnterpriseAccounts,
     name \in StoredNames, email \in StoredEmails :
    LET p == PropsOf(dot, ent, NoTab, CHOOSE h \in HostSettings : TRUE)
    IN  InitWith(p, InitialStore(p, [name |-> name, email |-> email,
                                     tool |-> Null, cmd |-> Null]))

NextLoad ==
  \/ LoadNameRead
  \/ LoadEmailRead
  \/ LoadReadFails
  \/ LoadCommit
  \/ \E f \in Fetches : LoadFetchFails(f)

SpecLoad == InitLoad /\ [][NextLoad]_vars

(***************************************************************************)
(* Every awaited write settles: it completes or it rejects.                *)
(***************************************************************************)
InitFair ==
  LET p == PropsOf(None, CHOOSE a \in EnterpriseAccounts : a # None, NoTab,
                   CHOOSE h \in HostSettings : h.selectedExternalEditor # Null)
  IN  InitWith(p, InitialStore(p, [name |-> "a", email |-> "c@x",
                                   tool |-> "m", cmd |-> "c"]))

FairSpec ==
  /\ InitFair
  /\ [][Next]_vars
  /\ \A i \in 1..MaxSaves :
       WF_vars(i <= Len(saves) /\ (SaveWriteCompletes(i) \/ SaveWriteFails(i)))

(***************************************************************************)
(* The dialog opened on each tab the host can ask for, and on none.        *)
(***************************************************************************)
InitialTabs == Tabs \cup {NoTab}

InitTabs ==
  \E tab \in InitialTabs :
    LET p == PropsOf(None, CHOOSE a \in EnterpriseAccounts : a # None, tab,
                     CHOOSE h \in HostSettings : h.selectedExternalEditor # Null)
    IN  InitWith(p, InitialStore(p, [name |-> "a", email |-> "c@x",
                                     tool |-> "m", cmd |-> "c"]))

SpecTabs == InitTabs /\ [][Next]_vars

(***************************************************************************)
(* Properties.                                                             *)
(***************************************************************************)
FooterTabs == {Integrations, Git, Advanced}

\* C1: in every reachable state whose selected tab is Integrations, Git or
\* Advanced a footer is rendered, and its Save control is disabled if and
\* only if disallowedCharactersMessage is non-null.
C1_SaveDisabledIffMessage ==
  state.selectedIndex \in FooterTabs =>
    /\ renderFooter(state) # None
    /\ DOMAIN renderFooter(state) = {"okButtonText", "okButtonDisabled"}
    /\ renderFooter(state).okButtonDisabled
         <=> (state.disallowedCharactersMessage # Null)

\* a footer is on screen with Save disabled by an invalid name
C1_Witness ==
  /\ state.selectedIndex \in FooterTabs
  /\ state.disallowedCharactersMessage # Null
  /\ renderFooter(state).okButtonDisabled

\* some save issues a write or calls onDismissed in this step
SaveActs ==
  \E i \in 1..Len(saves') :
    \/ i > Len(saves)
    \/ Len(saves'[i].log) > Len(saves[i].log)
    \/ saves'[i].dismissed > saves[i].dismissed

\* C2: an invalid committer name blocks the save action: no step in which
\* onSave issues a write or calls onDismissed is taken while
\* disallowedCharactersMessage is non-null.
C2_InvalidNameBlocksSave ==
  [][SaveActs => state.disallowedCharactersMessage = Null]_vars

\* C3: in every reachable state disallowedCharactersMessage is non-null if
\* and only if the committerName held in state fails gitAuthorNameIsValid.
C3_MessageIffNameInvalid ==
  (state.disallowedCharactersMessage # Null)
    <=> ~gitAuthorNameIsValid(state.committerName)

IsCmdKey(key) == key \in {MergeToolCmdKey(n) : n \in ToolNames \ {""}}
LogKeys(sv) == {sv.log[j].key : j \in 1..Len(sv.log)}
Wrote(sv, key, value) == \E j \in 1..Len(sv.log) : sv.log[j] = [key |-> key, value |-> value]

\* the merge tool keys a save has written, given the merge tool it read
MergeToolWritesMatch(sv) ==
  LET mt == sv.mergeTool
      cmdKeys == {k \in LogKeys(sv) : IsCmdKey(k)}
  IN  IF mt = None \/ ~Truthy(mt.name)
      THEN "merge.tool" \notin LogKeys(sv) /\ cmdKeys = {}
      ELSE /\ Wrote(sv, "merge.tool", mt.name)
           /\ IF Truthy(mt.command)
              THEN Wrote(sv, MergeToolCmdKey(mt.name), mt.command)
              ELSE cmdKeys = {}

\* C4: in every save the key mergetool.<name>.cmd is written only right
\* after merge.tool = <name> was written by the same save; a save whose
\* writes all completed, having read a merge tool with a non-empty name and
\* an empty or absent command, wrote merge.tool = name and no command key,
\* and having read an empty name or no merge tool wrote neither key, even
\* when a command is present.
C4_CommandOnlyWithTool ==
  \A i \in 1..Len(saves) :
    LET sv == saves[i]
    IN  /\ \A j \in 1..Len(sv.log) :
             IsCmdKey(sv.log[j].key) =>
               /\ j > 1
               /\ sv.log[j - 1].key = "merge.tool"
               /\ sv.log[j].key = MergeToolCmdKey(sv.log[j - 1].value)
        /\ sv.pc = "done" => MergeToolWritesMatch(sv)

\* a finished save that read a tool name without a command and wrote
\* merge.tool alone
C4_Witness ==
  \E i \in 1..Len(saves) :
    /\ saves[i].pc = "done"
    /\ saves[i].mergeTool # None
    /\ saves[i].mergeTool.name = "m"
    /\ ~Truthy(saves[i].mergeTool.command)
    /\ Wrote(saves[i], "merge.tool", "m")
    /\ ~\E k \in LogKeys(saves[i]) : IsCmdKey(k)

\* the three groups of the claim: config writes, behaviour flags, tools
Group(key) ==
  CASE key \in ConfigKeys -> 1
    [] key \in FlagKeys -> 2
    [] key \in ToolKeys -> 3
    [] OTHER -> 0

\* C5 as claimed: within one save every global-config write is issued
\* before every behaviour-flag write, and every behaviour-flag write before
\* every tool write.
C5_GroupedOrder ==
  \A i \in 1..Len(saves) :
    \A j, k \in 1..Len(saves[i].log) :
      LET gj == Group(saves[i].log[j].key)
          gk == Group(saves[i].log[k].key)
      IN  (gj # 0 /\ gk # 0 /\ gj < gk) => j < k

\* the order in which onSave issues its writes
SaveOrder ==
  <<"user.name", "user.email", "statsOptOut", "confirmRepoRemoval",
    "confirmForcePush", "externalEditor", "shell", "confirmDiscardChanges",
    "uncommittedChangesStrategyKind", "merge.tool">>

Rank(key) ==
  IF key \in Range(SaveOrder)
  THEN CHOOSE r \in 1..Len(SaveOrder) : SaveOrder[r] = key
  ELSE Len(SaveOrder) + 1

\* C5 as amended: within one save the writes are issued in the order
\* user.name, user.email, stats opt-out, confirm repository removal, confirm
\* force push, external editor, shell, confirm discard changes, uncommitted
\* changes strategy, merge.tool, mergetool.<name>.cmd, each at most once.
C5_SaveOrder ==
  \A i \in 1..Len(saves) :
    /\ Len(saves[i].log) >= 1 /\ saves[i].log[1].key = "user.name"
    /\ \A j \in 1..(Len(saves[i].log) - 1) :
         Rank(saves[i].log[j].key) < Rank(saves[i].log[j + 1].key)

\* a finished save that issued all eleven writes
C5_Witness ==
  \E i \in 1..Len(saves) :
    /\ saves[i].pc = "done"
    /\ Len(saves[i].log) = Len(SaveOrder) + 1
    /\ saves[i].log[7].key = "shell"
    /\ saves[i].log[8].key = "confirmDiscardChanges"

\* C6 as claimed: every save that has ended, whatever the outcome of its
\* writes, has called onDismissed exactly once.
C6_EverySaveDismisses ==
  \A i \in 1..Len(saves) : ~Running(saves[i]) => saves[i].dismissed = 1

DismissedOnlyWhenDone(sv) ==
  /\ sv.dismissed = (IF sv.pc = "done" THEN 1 ELSE 0)
  /\ sv.dismissed = 1 => sv.completed = Len(sv.log)
  /\ sv.pc = "failed" => sv.completed < Len(sv.log)

\* C6 as amended: every save, once triggered, ends; a save whose writes all
\* complete calls onDismissed exactly once, after its last write has
\* completed, and a save one of whose writes rejects never calls it.
C6_DismissedAfterLastWrite ==
  /\ [](\A i \in 1..Len(saves) : DismissedOnlyWhenDone(saves[i]))
  /\ \A i \in 1..MaxSaves :
       (Len(saves) >= i) ~> (Len(saves) >= i /\ ~Running(saves[i]))

\* a save has ended with all its writes completed and one dismissal
C6_Witness ==
  \E i \in 1..Len(saves) :
    /\ saves[i].pc = "done"
    /\ saves[i].dismissed = 1
    /\ saves[i].completed = Len(saves[i].log)
    /\ dismissals >= 1

\* C7: a rejected write ends its save with nothing undone and nothing more
\* done: the step changes neither the store nor the component state and
\* calls no dismissal, every write that completed was put in the store on
\* completion, and the failed save issues nothing afterwards.
C7_NoRollbackNoAtomicity ==
  [][\A i \in 1..Len(saves) :
       /\ (saves[i].pc # "failed" /\ saves'[i].pc = "failed") =>
            /\ persisted' = persisted
            /\ state' = state
            /\ dismissals' = dismissals
            /\ saves'[i] = [saves[i] EXCEPT !.pc = "failed"]
       /\ saves'[i].completed > saves[i].completed =>
            LET write == saves[i].log[Len(saves[i].log)]
            IN  persisted'[write.key] = write.value
       /\ saves[i].pc = "failed" => saves'[i] = saves[i]]_vars

\* a save failed partway: its first write is in the store, the shell the
\* dialog holds is not
C7_Witness ==
  \E i \in 1..Len(saves) :
    /\ saves[i].pc = "failed"
    /\ saves[i].completed >= 1
    /\ persisted["user.name"] = saves[i].log[1].value
    /\ "shell" \notin LogKeys(saves[i])
    /\ persisted["shell"] # state.selectedShell

FirstAccount ==
  IF props.dotComAccount # None THEN props.dotComAccount
  ELSE props.enterpriseAccount

\* under SpecLoad nothing writes the store: what load read is what it holds
ExpectedName ==
  IF Truthy(persisted["user.name"]) THEN persisted["user.name"]
  ELSE IF props.dotComAccount # None THEN props.dotComAccount.login
  ELSE IF props.enterpriseAccount # None THEN props.enterpriseAccount.login
  ELSE ""

ExpectedEmail ==
  IF Truthy(persisted["user.email"]) THEN persisted["user.email"]
  ELSE IF FirstAccount # None /\ lookupPreferredEmail(FirstAccount) # None
  THEN lookupPreferredEmail(FirstAccount).email
  ELSE ""

\* C8: once load has settled the identity, a name or email the config holds
\* is kept; a missing name is the login of the dot-com account if there is
\* one, else of the enterprise account, else empty; a missing email is the
\* preferred email of that same account if the lookup finds one, else
\* empty; and these are the values load commits.
C8_IdentityFallback ==
  /\ load.pc \in {"fetch", "done"} =>
       /\ load.committerName = ExpectedName
       /\ load.committerEmail = ExpectedEmail
  /\ (load.pc = "done" /\ nEdits = 0) =>
       /\ state.committerName = ExpectedName
       /\ state.committerEmail = ExpectedEmail

\* nothing stored, a dot-com account without addresses beside an enterprise
\* account with one: the dot-com login and no email are committed
C8_Witness ==
  /\ load.pc = "done"
  /\ ~Truthy(persisted["user.name"]) /\ ~Truthy(persisted["user.email"])
  /\ props.dotComAccount # None /\ props.enterpriseAccount # None
  /\ lookupPreferredEmail(props.dotComAccount) = None
  /\ lookupPreferredEmail(props.enterpriseAccount) # None
  /\ state.committerName = props.dotComAccount.login
  /\ state.committerEmail = ""

\* the state fields that have a prop of the same name
HostFields ==
  {"optOutOfUsageTracking", "confirmRepositoryRemoval", "confirmDiscardChanges",
   "confirmForcePush", "uncommittedChangesStrategyKind",
   "selectedExternalEditor", "selectedShell"}

\* C9: in every reachable state, also before load completes, each of the
\* seven selections held in state equals the corresponding prop unless the
\* edit handler of that field has run.
C9_SelectionsDefaultToProps ==
  \A f \in HostFields \ edited : state[f] = props[f]

LoadedValues(st) ==
  <<st.committerName, st.committerEmail, st.availableEditors,
    st.availableShells, st.mergeTool>>

AllLoadedValuesCommitted ==
  /\ load.pc = "fetch" /\ load'.pc = "done"
  /\ state'.committerName = load.committerName
  /\ state'.committerEmail = load.committerEmail
  /\ state'.availableEditors = Editors
  /\ state'.availableShells = Shells
  /\ state'.mergeTool = getMergeTool

\* C10: load commits its results in one state update: a step other than an
\* edit that changes one of the loaded values (name, email, editors, shells,
\* merge tool) is the completion of load and sets all of them; and while
\* load has not completed, or has failed, the state apart from the user's
\* edits and the selected tab is the constructed one, the name and email
\* already fetched included.
C10_LoadCommitsOnce ==
  [][/\ (nEdits' = nEdits /\ LoadedValues(state') # LoadedValues(state)) =>
          AllLoadedValuesCommitted
     /\ (load.pc # "done" /\ load'.pc = "done") => AllLoadedValuesCommitted
     /\ (load'.pc # "done" /\ nEdits' = 0) =>
          state' = [ConstructedState(props) EXCEPT
                      !.selectedIndex = state'.selectedIndex]]_vars

\* a fetch failed after the name was read: nothing of it is in the state
C10_Witness ==
  /\ load.pc = "failed"
  /\ load.committerName = "a"
  /\ load.committerEmail = "c@x"
  /\ nEdits = 0
  /\ state.committerName = ""
  /\ state.committerEmail = ""
  /\ state.availableEditors = <<>>

\* C11: in every reachable state, whatever tab the props asked for and
\* whatever was clicked or edited since, selectedIndex is one of the five
\* tabs, so neither renderActiveTab nor renderFooter reaches assertNever.
C11_SelectedIndexIsATab ==
  /\ state.selectedIndex \in Tabs
  /\ "assertNever" \notin DOMAIN renderActiveTab(state)
  /\ "assertNever" \notin DOMAIN renderFooter(state)

\* opened with no initial tab, then moved by a click, with load done
C11_Witness ==
  /\ props.initialSelectedTab = NoTab
  /\ state.selectedIndex = Appearance
  /\ load.pc = "done"
  /\ renderActiveTab(state) = [view |-> "Appearance"]

\* the sub-view the tab bar names for each tab
ViewOf(tab) ==
  CASE tab = Accounts -> "Accounts"
    [] tab = Integrations -> "Integrations"
    [] tab = Git -> "Git"
    [] tab = Appearance -> "Appearance"
    [] tab = Advanced -> "Advanced"

\* C12: in every reachable state, each of the five tabs, once selected,
\* renders its own sub-view and no other, and renders no footer when it is
\* Accounts or Appearance and a Save/Cancel footer when it is Integrations,
\* Git or Advanced.
C12_OneViewOneFooterPerTab ==
  /\ renderActiveTab(state) = [view |-> ViewOf(state.selectedIndex)]
  /\ \A tab \in Tabs :
       LET st == [state EXCEPT !.selectedIndex = tab]
       IN  /\ renderActiveTab(st) = [view |-> ViewOf(tab)]
           /\ tab \in {Accounts, Appearance} => renderFooter(st) = None
           /\ tab \in FooterTabs =>
                /\ DOMAIN renderFooter(st) = {"okButtonText", "okButtonDisabled"}
                /\ renderFooter(st).okButtonText = "Save"

\* opened on Advanced, then Git clicked: the Git view over a Save footer
C12_Witness ==
  /\ props.initialSelectedTab = Advanced
  /\ state.selectedIndex = Git
  /\ renderActiveTab(state) = [view |-> "Git"]
  /\ renderFooter(state) = [okButtonText |-> "Save", okButtonDisabled |-> FALSE]

\* how often a save has issued a write of the key
Issued(sv, key) == Cardinality({j \in 1..Len(sv.log) : sv.log[j].key = key})

\* the step in which save i issues its write of the key
Issues(i, key) ==
  /\ i <= Len(saves)
  /\ Issued(saves[i], key) = 0
  /\ Issued(saves'[i], key) = 1

\* C13: a save whose writes have all completed has issued setShell exactly
\* once, with the shell selected when it was issued, and has issued
\* setExternalEditor (once, with the selected editor) exactly when an editor
\* was selected at the time the save came to that write.
C13_ShellAlwaysEditorIfSelected ==
  [][\A i \in 1..Len(saves') :
       LET sv == saves'[i]
       IN  /\ sv.pc = "done" =>
                /\ Issued(sv, "shell") = 1
                /\ Issued(sv, "externalEditor") <= 1
           /\ Issues(i, "shell") => Wrote(sv, "shell", state.selectedShell)
           /\ Issues(i, "externalEditor") =>
                /\ state.selectedExternalEditor # Null
                /\ Wrote(sv, "externalEditor", state.selectedExternalEditor)
           /\ (i <= Len(saves) /\ saves[i].pc = "confirmForcePush"
               /\ sv # saves[i] /\ Running(sv)
               /\ state.selectedExternalEditor # Null) =>
                Issues(i, "externalEditor")]_vars

\* the host had no editor, the user selected one, and the finished save has
\* written both the editor and the shell
C13_Witness ==
  /\ props.selectedExternalEditor = Null
  /\ "selectedExternalEditor" \in edited
  /\ \E i \in 1..Len(saves) :
       /\ saves[i].pc = "done"
       /\ Wrote(saves[i], "externalEditor", state.selectedExternalEditor)
       /\ Wrote(saves[i], "shell", state.selectedShell)

\* C14: while the dialog is on screen a click on any tab is possible,
\* whether or not disallowedCharactersMessage is set, and the step that
\* changes the tab changes selectedIndex alone: every other state field, the
\* stored configuration, the saves and their writes, and the dismissals stay
\* as they were.
C14_TabClickAlwaysEnabledAndPure ==
  /\ [](Open => \A index \in Tabs : ENABLED onTabClicked(index))
  /\ [][state'.selectedIndex # state.selectedIndex =>
          /\ state' = [state EXCEPT !.selectedIndex = state'.selectedIndex]
          /\ UNCHANGED <<props, persisted, load, saves, dismissals>>]_vars

\* an invalid name typed on the Git tab, its message showing, and the user
\* gone on to the Accounts tab
C14_Witness ==
  /\ "committerName" \in edited
  /\ state.disallowedCharactersMessage # Null
  /\ state.selectedIndex = Accounts
  /\ Open

\* the state fields the setState of load assigns and the user can edit
LoadedFields ==
  {"committerName", "committerEmail", "optOutOfUsageTracking",
   "confirmRepositoryRemoval", "confirmDiscardChanges", "confirmForcePush",
   "uncommittedChangesStrategyKind", "mergeTool"}

\* C15: the step in which load completes leaves every field the user has
\* edited before it (committer name or email, a behaviour flag, the
\* uncommitted-changes strategy, the merge tool) at the user's value.
C15_LoadKeepsEdits ==
  [][(load.pc = "fetch" /\ load'.pc = "done") =>
       \A f \in edited \cap LoadedFields : state'[f] = state[f]]_vars

\* the state field a save reads for each identity and behaviour-flag key
FieldOf(key) ==
  CASE key = "user.name" -> "committerName"
    [] key = "user.email" -> "committerEmail"
    [] key = "statsOptOut" -> "optOutOfUsageTracking"
    [] key = "confirmRepoRemoval" -> "confirmRepositoryRemoval"
    [] key = "confirmForcePush" -> "confirmForcePush"
    [] key = "confirmDiscardChanges" -> "confirmDiscardChanges"

\* save i issues a write in this step: it is triggered or it goes on
IssuesWrite(i) ==
  \/ i > Len(saves)
  \/ Len(saves'[i].log) > Len(saves[i].log)

\* C16: whenever a save issues its write of user.name, user.email or a
\* behaviour flag, the field it reads holds a value that load has committed
\* or that the user has entered, never the placeholder of the constructor:
\* load has completed by then, or the user has edited that field.
C16_NoPlaceholderSaved ==
  [][\A i \in 1..Len(saves') :
       LET write == saves'[i].log[Len(saves'[i].log)]
       IN  (IssuesWrite(i) /\ write.key \in {"user.name", "user.email"} \cup FlagKeys)
             => (load.pc = "done" \/ FieldOf(write.key) \in edited)]_vars

\* what the state held under a written key when the save was triggered
TriggeredValue(sv, key) ==
  LET t == sv.triggered
  IN  CASE key \in {"user.name", "user.email"} \cup FlagKeys -> t[FieldOf(key)]
        [] key = "externalEditor" -> t.selectedExternalEditor
        [] key = "shell" -> t.selectedShell
        [] key = "uncommittedChangesStrategyKind" -> t.uncommittedChangesStrategyKind
        [] key = "merge.tool" ->
             IF t.mergeTool # None THEN t.mergeTool.name ELSE Null
        [] OTHER -> IF t.mergeTool # None THEN t.mergeTool.command ELSE Null

\* C17: every value a save has written is the value the state held under
\* that field when the save was triggered, whatever edits or load completion
\* have run between its awaited writes.
C17_SingleSnapshot ==
  \A i \in 1..Len(saves) :
    \A j \in 1..Len(saves[i].log) :
      saves[i].log[j].value = TriggeredValue(saves[i], saves[i].log[j].key)

\* the merge tool name and command before an edit, as the handlers read them
OldMergeToolName == IF state.mergeTool # None THEN state.mergeTool.name ELSE ""
OldMergeToolCommand ==
  IF state.mergeTool # None THEN state.mergeTool.command ELSE Null

\* a step that changes the merge tool of the state and nothing else
OnlyMergeToolChanges ==
  /\ state' = [state EXCEPT !.mergeTool = state'.mergeTool]
  /\ UNCHANGED <<props, persisted, load, saves, dismissals>>

\* C18: an edit of the merge tool name stores the name and leaves the
\* command as it was (none if there was no merge tool), an edit of the
\* command stores the command and leaves the name as it was (the empty
\* string if there was no merge tool), and either edit changes no other
\* state field, writes nothing and calls nothing.
C18_MergeToolEditsAreIndependent ==
  [][/\ \A name \in ToolNames :
          onMergeToolNameChanged(name) =>
            /\ state'.mergeTool.name = name
            /\ state'.mergeTool.command = OldMergeToolCommand
            /\ OnlyMergeToolChanges
     /\ \A command \in ToolCommands :
          onMergeToolCommandChanged(command) =>
            /\ state'.mergeTool.command = command
            /\ state'.mergeTool.name = OldMergeToolName
            /\ OnlyMergeToolChanges]_vars

\* load has committed the stored tool and its command, and the user has
\* then cleared the name: the command is still there
C18_Witness ==
  /\ load.pc = "done"
  /\ persisted["merge.tool"] = "m"
  /\ persisted[MergeToolCmdKey("m")] = "c"
  /\ "mergeTool" \in edited
  /\ state.mergeTool = [name |-> "", command |-> "c"]

====
